---- MODULE Spec2Model ----
(***************************************************************************)
(* A model of milky-trie (src/src/lib.rs): a byte trie whose nodes, node   *)
(* counter and per-node value cells live in a key-value store, with an     *)
(* in-memory write-through node cache per engine (struct Trie).            *)
(*                                                                         *)
(* Store keys and value cells are byte sequences built exactly as the code *)
(* builds them.  A stored node is kept as the TrieNode it is the memory    *)
(* image of; reading a record through the wrong type (the unsafe pointer   *)
(* casts of get_trie_data / get_trie_node_at) yields a value chosen by the *)
(* oracle g of the call.                                                   *)
(***************************************************************************)
EXTENDS Integers, Sequences, FiniteSets, TLC

VARIABLES db, durable, eng, last, hist, dhist, atFlush, nins, it

vars == <<db, durable, eng, last, hist, dhist, atFlush, nins, it>>

-----------------------------------------------------------------------------
(* Bounds of the model.                                                    *)

\* number of insert calls in one behaviour
MaxInserts == 2
\* a decoded little-endian integer saturates here (TLC has 32-bit integers)
SatLimit == 4194304

\* the bytes keys are made of ('a', 'b'); a node's edge table is indexed by them
KeyBytes == {97, 98}
\* the keys passed to insert and get: "", "a", "aa", "ab", "b"
Keys == {<<>>, <<97>>, <<97, 97>>, <<97, 98>>, <<98>>}
\* the values inserted: the empty value and the texts "x" and "y"
Values == {<<>>, <<120>>, <<121>>}

\* engine instances and the namespace prefixes they may be constructed with
Engines == {1, 2}

-----------------------------------------------------------------------------
(* Program constants.                                                      *)

\* the key buffer `root` of put_trie_node_at, get_trie_node_at, get_value, append_value
BufLen == 1024
\* size_of::<usize>(): width of n.to_le_bytes() and of the TrieData image
UsizeBytes == 8
\* width of the length prefix of a value record, (value.len() as u32).to_le_bytes()
LenBytes == 4

\* b"/values"
ValuesSuffix == <<47, 118, 97, 108, 117, 101, 115>>

-----------------------------------------------------------------------------
(* Bytes and integers.                                                     *)

\* n.to_le_bytes() of width w
RECURSIVE ToLe(_, _)
ToLe(n, w) == IF w = 0 THEN <<>> ELSE <<n % 256>> \o ToLe(n \div 256, w - 1)

\* byte i of b, 0 past its end
ByteAt(b, i) == IF i <= Len(b) THEN b[i] ELSE 0

\* from_le_bytes, saturating at SatLimit (which three bytes can hold)
FromLe(b) ==
    IF (\E i \in 4..Len(b) : b[i] # 0)
       \/ ByteAt(b, 1) + 256 * ByteAt(b, 2) + 65536 * ByteAt(b, 3) >= SatLimit
    THEN SatLimit
    ELSE ByteAt(b, 1) + 256 * ByteAt(b, 2) + 65536 * ByteAt(b, 3)

\* `nextn as u32`: the low four bytes of a usize
AsU32(n) == FromLe(SubSeq(ToLe(n, UsizeBytes), 1, 4))

\* Option<T>
None == <<>>
Some(v) == <<v>>

\* f with k mapped to v
Upd(f, k, v) == [x \in DOMAIN f \cup {k} |-> IF x = k THEN v ELSE f[x]]

-----------------------------------------------------------------------------
(* TrieNode, TrieData and the stored records.                              *)

\* TrieNode::default()
DefaultNode == [value |-> 0, next |-> [b \in KeyBytes |-> None]]

\* TrieNode { value: byte, ..Default::default() }
FreshNode(byte) == [value |-> byte, next |-> [b \in KeyBytes |-> None]]

\* the bytes put for a node: the memory image of the TrieNode
NodeRec(node) == [kind |-> "node", bytes |-> <<>>, node |-> node]
\* any other stored bytes (the TrieData image, a value cell)
BytesRec(b) == [kind |-> "bytes", bytes |-> b, node |-> DefaultNode]

\* *(bytes.as_ptr() as *const TrieNode): defined only on a TrieNode image
DecodeNode(rec, g) == IF rec.kind = "node" THEN rec.node ELSE g.node

\* *(bytes.as_ptr() as *const TrieData): the first eight bytes as a usize
DecodeTrieData(rec, g) ==
    IF rec.kind = "bytes" /\ Len(rec.bytes) >= UsizeBytes
    THEN FromLe(SubSeq(rec.bytes, 1, UsizeBytes))
    ELSE g.qty

\* the bytes of a record read as a value cell
DecodeItems(rec, g) == IF rec.kind = "bytes" THEN rec.bytes ELSE g.bytes

-----------------------------------------------------------------------------
(* Namespaces and the key-space: prefix || LE(n) [ || "/values" ].         *)

\* the namespace prefixes used: "t", "t" followed by eight NUL bytes, and a
\* prefix that leaves no room for a node index in the 1024-byte key buffer
Prefixes == {1, 2, 3}
PrefixBytes(pid) ==
    CASE pid = 1 -> <<116>>
      [] pid = 2 -> <<116>> \o ToLe(0, UsizeBytes)
      [] pid = 3 -> [i \in 1..(BufLen - UsizeBytes + 1) |-> 116]

\* key of the TrieData record: self.prefix.as_bytes()
MetaKey(pid) == PrefixBytes(pid)
\* key of node n: prefix followed by n.to_le_bytes()
NodeKey(pid, n) == PrefixBytes(pid) \o ToLe(n, UsizeBytes)
\* key of the value cell of node n
ValuesKey(pid, n) == PrefixBytes(pid) \o ToLe(n, UsizeBytes) \o ValuesSuffix

\* root[0..prefix.len()] and root[prefix.len()..prefix.len()+len] are in the buffer
KeyFits(pid, len) == Len(PrefixBytes(pid)) + len <= BufLen

-----------------------------------------------------------------------------
(* One call in progress: the store, the fields of the Trie it runs on, the *)
(* store operations it has issued, and how it ended.                       *)
(*   failAt  the store operation of this call that fails with an I/O error *)
(*           (0: none)                                                     *)
(*   g       what a read through the wrong type yields in this call        *)

Machine(pid, qty, cache, f, g) ==
    [db |-> db, durable |-> durable, pid |-> pid, qty |-> qty, cache |-> cache,
     log |-> <<>>, failAt |-> f, g |-> g, st |-> "run"]

\* a call on the engine e
MachineOf(e, f, g) == Machine(eng[e].pid, eng[e].qty, eng[e].cache, f, g)

IoFails(m) == Len(m.log) + 1 = m.failAt

Logged(m, kind, k) ==
    [m EXCEPT !.log = Append(@, [kind |-> kind, key |-> k, failed |-> IoFails(m)])]

Panic(m) == [m EXCEPT !.st = "panic"]

\* db.get(key): Err, Ok(None) or Ok(Some(bytes))
DbGet(m, k) ==
    [m   |-> Logged(m, "get", k),
     res |-> IF IoFails(m) THEN "err" ELSE IF k \in DOMAIN m.db THEN "some" ELSE "none",
     rec |-> IF ~IoFails(m) /\ k \in DOMAIN m.db THEN m.db[k] ELSE BytesRec(<<>>)]

\* db.put(key, bytes): a failed put leaves the store as it was
DbPut(m, k, rec) ==
    [m  |-> [Logged(m, "put", k) EXCEPT !.db = IF IoFails(m) THEN @ ELSE Upd(@, k, rec)],
     ok |-> ~IoFails(m)]

\* db.flush_wal(true): what is in the store becomes durable
DbFlush(m) ==
    [m  |-> [Logged(m, "flush", <<>>) EXCEPT !.durable = IF IoFails(m) THEN @ ELSE m.db],
     ok |-> ~IoFails(m)]

-----------------------------------------------------------------------------
(* The private functions of Trie.                                          *)

\* Trie::get_trie_data
GetTrieData(m) ==
    LET r == DbGet(m, MetaKey(m.pid))
    IN  IF r.res = "err" THEN Panic(r.m)
        ELSE [r.m EXCEPT !.qty = IF r.res = "some" THEN DecodeTrieData(r.rec, m.g) ELSE 0]

\* a set_trie_data that puts nothing
SetTrieDataNoPut(m) == m

\* Trie::set_trie_data: the result of the put is dropped
SetTrieData(m) == DbPut(m, MetaKey(m.pid), BytesRec(ToLe(m.qty, UsizeBytes))).m

\* Trie::put_trie_node_at
PutTrieNodeAt(m, n, node) ==
    IF ~KeyFits(m.pid, UsizeBytes) THEN Panic(m)
    ELSE LET r == DbPut(m, NodeKey(m.pid, n), NodeRec(node))
         IN  IF r.ok THEN r.m ELSE Panic(r.m)

\* Trie::get_trie_node_at: an I/O error reads as "no such node"
GetTrieNodeAt(m, n) ==
    IF ~KeyFits(m.pid, UsizeBytes) THEN [m |-> Panic(m), node |-> None]
    ELSE LET r == DbGet(m, NodeKey(m.pid, n))
         IN  [m    |-> r.m,
              node |-> IF r.res = "some" THEN Some(DecodeNode(r.rec, m.g)) ELSE None]

\* a cache get that reads the store at every call and keeps what it read
CacheGetNodeAtReadThrough(m, n) ==
    LET r == GetTrieNodeAt(m, n)
    IN  IF r.node = None THEN r
        ELSE [m |-> [r.m EXCEPT !.cache = Upd(@, n, r.node[1])], node |-> r.node]

\* Trie::cache_get_node_at
CacheGetNodeAt(m, n) ==
    IF n \in DOMAIN m.cache THEN [m |-> m, node |-> Some(m.cache[n])]
    ELSE LET r == GetTrieNodeAt(m, n)
         IN  IF r.node = None THEN r
             ELSE [m |-> [r.m EXCEPT !.cache = Upd(@, n, r.node[1])], node |-> r.node]

\* a cache put that sets the cache entry and leaves the store to a later write
CachePutNodeAtCacheOnly(m, n, node) ==
    IF ~KeyFits(m.pid, UsizeBytes) THEN Panic(m)
    ELSE [m EXCEPT !.cache = Upd(@, n, node)]

\* Trie::cache_put_node_at: the cache entry is set before the put is tried
CachePutNodeAt(m, n, node) ==
    PutTrieNodeAt([m EXCEPT !.cache = Upd(@, n, node)], n, node)

\* a get_value that creates the cell it does not find
GetValueCreating(m, n) ==
    IF ~KeyFits(m.pid, UsizeBytes + Len(ValuesSuffix)) THEN [m |-> Panic(m), items |-> <<>>]
    ELSE LET r == DbGet(m, ValuesKey(m.pid, n))
         IN  IF r.res = "some" THEN [m |-> r.m, items |-> DecodeItems(r.rec, m.g)]
             ELSE [m |-> DbPut(r.m, ValuesKey(m.pid, n), BytesRec(<<>>)).m, items |-> <<>>]

\* Trie::get_value: an I/O error reads as an empty cell
GetValue(m, n) ==
    IF ~KeyFits(m.pid, UsizeBytes + Len(ValuesSuffix)) THEN [m |-> Panic(m), items |-> <<>>]
    ELSE LET r == DbGet(m, ValuesKey(m.pid, n))
         IN  [m     |-> r.m,
              items |-> IF r.res = "some" THEN DecodeItems(r.rec, m.g) ELSE <<>>]

\* append_value that puts the new record alone, dropping what the cell held
AppendValueReplacing(m, n, value) ==
    IF ~KeyFits(m.pid, UsizeBytes + Len(ValuesSuffix)) THEN Panic(m)
    ELSE LET r == DbGet(m, ValuesKey(m.pid, n))
             w == DbPut(r.m, ValuesKey(m.pid, n),
                        BytesRec(ToLe(Len(value), LenBytes) \o value))
         IN  IF w.ok THEN w.m ELSE Panic(w.m)

\* Trie::append_value: read the cell, extend it by one record, put it back
AppendValue(m, n, value) ==
    IF ~KeyFits(m.pid, UsizeBytes + Len(ValuesSuffix)) THEN Panic(m)
    ELSE LET r     == DbGet(m, ValuesKey(m.pid, n))
             bytes == IF r.res = "some" THEN DecodeItems(r.rec, m.g) ELSE <<>>
             w     == DbPut(r.m, ValuesKey(m.pid, n),
                            BytesRec(bytes \o ToLe(Len(value), LenBytes) \o value))
         IN  IF w.ok THEN w.m ELSE Panic(w.m)

-----------------------------------------------------------------------------
(* The public functions of Trie.                                           *)

\* new that puts a default root without looking for a stored one
NewAlwaysPutsRoot(m) ==
    LET a == GetTrieData(m)
    IN  IF a.st = "panic" THEN a ELSE CachePutNodeAt(a, 0, DefaultNode)

\* new that also puts the counter it has read
NewPersistsCounter(m) ==
    LET a == GetTrieData(m)
        r == CacheGetNodeAt(a, 0)
    IN  IF a.st = "panic" THEN a
        ELSE IF r.m.st = "panic" THEN r.m
        ELSE IF r.node = None THEN SetTrieData(CachePutNodeAt(r.m, 0, DefaultNode))
        ELSE SetTrieData(r.m)

\* Trie::new, on a machine with the prefix set and an empty cache
New(m) ==
    LET a == GetTrieData(m)
        r == CacheGetNodeAt(a, 0)
    IN  IF a.st = "panic" THEN a
        ELSE IF r.m.st = "panic" THEN r.m
        ELSE IF r.node = None THEN CachePutNodeAt(r.m, 0, DefaultNode)
        ELSE r.m

\* Trie::flush: the result of flush_wal is dropped
Flush(m) == DbFlush(m).m

(* Trie::insert, one store write at a time.  A frame holds the locals of   *)
(* the call (key, value, the index i of the next key byte, n, current) and *)
(* the place it has reached:                                               *)
(*   "loop"    at the head of the for loop, byte i next                    *)
(*   "child"   in the None arm, the parent is put, the new node is not     *)
(*   "meta"    the loop is over, set_trie_data is next                     *)
(*   "append"  set_trie_data is done, append_value is next                 *)
(*   "done"    returned                                                    *)
AfterByte(key, i) == IF i > Len(key) THEN "meta" ELSE "loop"

\* let mut n = 0; let mut current = self.cache_get_node_at(0).unwrap();
InsertBegin(m, key, value) ==
    LET r == CacheGetNodeAt(m, 0)
    IN  IF r.m.st = "panic" \/ r.node = None
        THEN [m |-> Panic(r.m), fr |-> None]
        ELSE [m  |-> r.m,
              fr |-> Some([key |-> key, value |-> value, i |-> 1, n |-> 0,
                           current |-> r.node[1], nextn |-> 0,
                           at |-> AfterByte(key, 1)])]

\* the Some(nextn) arm: descend
InsertDescend(m, fr) ==
    LET nextn == fr.current.next[fr.key[fr.i]][1]
        r     == CacheGetNodeAt(m, nextn)
    IN  IF r.m.st = "panic" \/ r.node = None
        THEN [m |-> Panic(r.m), fr |-> fr]
        ELSE [m  |-> r.m,
              fr |-> [fr EXCEPT !.n = nextn, !.current = r.node[1], !.i = @ + 1,
                                !.at = AfterByte(fr.key, fr.i + 1)]]

\* a None arm that sets the edge and puts the nodes but leaves the counter as it was
InsertPutParentNoCount(m, fr) ==
    LET nextn   == m.qty + 1
        current == [fr.current EXCEPT !.next[fr.key[fr.i]] = Some(AsU32(nextn))]
    IN  [m  |-> CachePutNodeAt(m, fr.n, current),
         fr |-> [fr EXCEPT !.current = current, !.nextn = nextn, !.at = "child"]]

\* a None arm that reads the stored counter again before it counts
InsertPutParentFromStore(m, fr) ==
    LET a       == GetTrieData(m)
        nextn   == a.qty + 1
        current == [fr.current EXCEPT !.next[fr.key[fr.i]] = Some(AsU32(nextn))]
    IN  [m  |-> CachePutNodeAt([a EXCEPT !.qty = nextn], fr.n, current),
         fr |-> [fr EXCEPT !.current = current, !.nextn = nextn, !.at = "child"]]

\* the None arm up to its first put: count, set the edge, put the parent
InsertPutParent(m, fr) ==
    LET nextn   == m.qty + 1
        current == [fr.current EXCEPT !.next[fr.key[fr.i]] = Some(AsU32(nextn))]
    IN  [m  |-> CachePutNodeAt([m EXCEPT !.qty = nextn], fr.n, current),
         fr |-> [fr EXCEPT !.current = current, !.nextn = nextn, !.at = "child"]]

\* the rest of the None arm: put the new node and step onto it
InsertPutChild(m, fr) ==
    LET node == FreshNode(fr.key[fr.i])
    IN  [m  |-> CachePutNodeAt(m, fr.nextn, node),
         fr |-> [fr EXCEPT !.n = fr.nextn, !.current = node, !.i = @ + 1,
                           !.at = AfterByte(fr.key, fr.i + 1)]]

\* a step that takes the None arm at every key byte, whatever edge is set
InsertStepAlwaysAllocates(m, fr) ==
    CASE fr.at = "loop"   -> InsertPutParent(m, fr)
      [] fr.at = "child"  -> InsertPutChild(m, fr)
      [] fr.at = "meta"   -> [m |-> SetTrieData(m), fr |-> [fr EXCEPT !.at = "append"]]
      [] fr.at = "append" -> [m  |-> AppendValue(m, fr.n, fr.value),
                              fr |-> [fr EXCEPT !.at = "done"]]

\* one step of insert from the place the frame is at
InsertStep(m, fr) ==
    CASE fr.at = "loop" ->
           IF fr.current.next[fr.key[fr.i]] # None THEN InsertDescend(m, fr)
           ELSE InsertPutParent(m, fr)
      [] fr.at = "child"  -> InsertPutChild(m, fr)
      [] fr.at = "meta"   -> [m |-> SetTrieData(m), fr |-> [fr EXCEPT !.at = "append"]]
      [] fr.at = "append" -> [m  |-> AppendValue(m, fr.n, fr.value),
                              fr |-> [fr EXCEPT !.at = "done"]]

\* the steps of insert up to its return or its panic
RECURSIVE InsertRun(_, _)
InsertRun(m, fr) ==
    IF m.st = "panic" \/ fr.at = "done" THEN [m |-> m, fr |-> fr]
    ELSE LET s == InsertStep(m, fr) IN InsertRun(s.m, s.fr)

\* Trie::insert as one call
Insert(m, key, value) ==
    LET b == InsertBegin(m, key, value)
    IN  IF b.m.st = "panic" THEN b.m ELSE InsertRun(b.m, b.fr[1]).m

\* the for loop of Trie::get from byte i on, then get_value
RECURSIVE GetLoop(_, _, _, _, _)

\* a get loop that answers a missing edge with the values of the node reached
GetLoopLongestPrefix(m, key, i, n, current) ==
    IF i > Len(key) \/ current.next[key[i]] = None THEN GetValue(m, n)
    ELSE LET nextn == current.next[key[i]][1]
             r     == CacheGetNodeAt(m, nextn)
         IN  IF r.m.st = "panic" \/ r.node = None
             THEN [m |-> Panic(r.m), items |-> <<>>]
             ELSE GetLoop(r.m, key, i + 1, nextn, r.node[1])

GetLoop(m, key, i, n, current) ==
    IF i > Len(key) THEN GetValue(m, n)
    ELSE IF current.next[key[i]] = None THEN [m |-> m, items |-> <<>>]
    ELSE LET nextn == current.next[key[i]][1]
             r     == CacheGetNodeAt(m, nextn)
         IN  IF r.m.st = "panic" \/ r.node = None
             THEN [m |-> Panic(r.m), items |-> <<>>]
             ELSE GetLoop(r.m, key, i + 1, nextn, r.node[1])

\* Trie::get
Get(m, key) ==
    LET r == CacheGetNodeAt(m, 0)
    IN  IF r.m.st = "panic" \/ r.node = None
        THEN [m |-> Panic(r.m), items |-> <<>>]
        ELSE GetLoop(r.m, key, 1, 0, r.node[1])

-----------------------------------------------------------------------------
(* Items and ItemsStrIter.                                                 *)

Cont(b, i) == i <= Len(b) /\ b[i] >= 128 /\ b[i] <= 191
InRange(b, i, lo, hi) == i <= Len(b) /\ b[i] >= lo /\ b[i] <= hi

\* std::str::from_utf8(b).is_ok(), from byte i on
RECURSIVE Utf8From(_, _)
Utf8From(b, i) ==
    IF i > Len(b) THEN TRUE
    ELSE LET c == b[i]
         IN  CASE c <= 127 -> Utf8From(b, i + 1)
               [] c >= 194 /\ c <= 223 -> Cont(b, i + 1) /\ Utf8From(b, i + 2)
               [] c = 224 -> InRange(b, i + 1, 160, 191) /\ Cont(b, i + 2) /\ Utf8From(b, i + 3)
               [] c = 237 -> InRange(b, i + 1, 128, 159) /\ Cont(b, i + 2) /\ Utf8From(b, i + 3)
               [] c >= 225 /\ c <= 239 /\ c # 237 ->
                     Cont(b, i + 1) /\ Cont(b, i + 2) /\ Utf8From(b, i + 3)
               [] c = 240 -> InRange(b, i + 1, 144, 191) /\ Cont(b, i + 2) /\ Cont(b, i + 3)
                             /\ Utf8From(b, i + 4)
               [] c >= 241 /\ c <= 243 -> Cont(b, i + 1) /\ Cont(b, i + 2) /\ Cont(b, i + 3)
                                          /\ Utf8From(b, i + 4)
               [] c = 244 -> InRange(b, i + 1, 128, 143) /\ Cont(b, i + 2) /\ Cont(b, i + 3)
                             /\ Utf8From(b, i + 4)
               [] OTHER -> FALSE

IsUtf8(b) == Utf8From(b, 1)

\* ItemsStrIter::next on the buffer buf with self.pos = pos (0-based):
\*   r = "some": Some(str);  "none": None;  "panic": the slice is out of range
ItemsStrIterNext(buf, pos) ==
    LET end == pos + LenBytes
        len == FromLe(SubSeq(buf, pos + 1, end))
        str == SubSeq(buf, end + 1, end + len)
    IN  IF end >= Len(buf) THEN [r |-> "none", pos |-> pos, str |-> <<>>]
        ELSE IF end + len > Len(buf) THEN [r |-> "panic", pos |-> end, str |-> <<>>]
        ELSE [r |-> IF IsUtf8(str) THEN "some" ELSE "none", pos |-> end + len, str |-> str]

\* items.as_str() consumed up to the first None, as count() and collect() do
RECURSIVE StrsFrom(_, _)
StrsFrom(buf, pos) ==
    LET x == ItemsStrIterNext(buf, pos)
    IN  IF x.r = "some"
        THEN LET rest == StrsFrom(buf, x.pos)
             IN  [ok |-> rest.ok, strs |-> <<x.str>> \o rest.strs]
        ELSE [ok |-> x.r = "none", strs |-> <<>>]

\* Items::as_str
AsStr(buf) == StrsFrom(buf, 0)

-----------------------------------------------------------------------------
(* The state.                                                              *)
(*   db        the store: key bytes -> stored record                       *)
(*   durable   the store as of the last successful flush_wal(true)         *)
(*   eng       the Trie instances: prefix, data.qty, cache, and the frame  *)
(*             of an insert in progress (pc)                               *)
(*   last      the last call: what it was, how it ended, what it returned  *)
(*             and the store operations it issued                          *)
(*   hist      per prefix and key, the values of the inserts that returned *)
(*   dhist     hist as of the last successful flush                        *)
(*   atFlush   what get returned for every key when flush was last called  *)
(*   nins      number of insert calls so far                               *)
(*   it        an ItemsStrIter: its buffer, self.pos, what the last call   *)
(*             of next returned, and the strs yielded before the first None*)

EmptyCache == [n \in {} |-> DefaultNode]
EmptyStore == [k \in {} |-> BytesRec(<<>>)]

NoEngine == [alive |-> FALSE, pid |-> 1, qty |-> 0, cache |-> EmptyCache, pc |-> None]

\* the choices of a call that reads no record through the wrong type
G0 == [node |-> DefaultNode, qty |-> 0, bytes |-> <<>>]

\* Items(buf).as_str(): pos: 0, no call of next yet
IterOn(buf) == [buf |-> buf, pos |-> 0, r |-> "start", str |-> <<>>, out |-> <<>>,
                ended |-> FALSE]

NoHist == [p \in Prefixes |-> [k \in Keys |-> <<>>]]
NoView == [flushed |-> FALSE, pid |-> 1, view |-> [k \in Keys |-> <<>>]]

Call(op, e, key, value, m, items) ==
    [op |-> op, e |-> e, pid |-> m.pid, key |-> key, value |-> value, st |-> m.st,
     items |-> items, log |-> m.log]

\* the engine e after a call that ran on m
EngAfter(e, m) == [eng EXCEPT ![e].qty = m.qty, ![e].cache = m.cache]

\* get(k) as the engine e would answer it now
View(e, k) == Get(MachineOf(e, 0, G0), k)

\* Trie::new(db, prefix) into the slot e; a panic leaves no engine
Construct(e, pid, f, g) ==
    LET m == New(Machine(pid, 0, EmptyCache, f, g))
    IN  /\ eng[e].pc = None
        /\ db' = m.db
        /\ eng' = [eng EXCEPT ![e] = IF m.st = "panic" THEN NoEngine
                                     ELSE [alive |-> TRUE, pid |-> pid, qty |-> m.qty,
                                           cache |-> m.cache, pc |-> None]]
        /\ last' = Call("new", e, <<>>, <<>>, [m EXCEPT !.st = IF @ = "run" THEN "ok" ELSE @], <<>>)
        /\ UNCHANGED <<durable, hist, dhist, atFlush, nins, it>>

\* t.insert(key, value), the whole call
InsertCall(e, key, value, f, g) ==
    LET m  == Insert(MachineOf(e, f, g), key, value)
        ok == m.st # "panic"
    IN  /\ eng[e].alive /\ eng[e].pc = None
        /\ nins < MaxInserts
        /\ db' = m.db
        /\ eng' = EngAfter(e, m)
        /\ hist' = IF ok THEN [hist EXCEPT ![eng[e].pid][key] = Append(@, value)] ELSE hist
        /\ nins' = nins + 1
        /\ last' = Call("insert", e, key, value, [m EXCEPT !.st = IF ok THEN "ok" ELSE @], <<>>)
        /\ UNCHANGED <<durable, dhist, atFlush, it>>

\* t.get(key)
GetCall(e, key, f, g) ==
    LET r == Get(MachineOf(e, f, g), key)
    IN  /\ eng[e].alive /\ eng[e].pc = None
        /\ db' = r.m.db
        /\ durable' = r.m.durable
        /\ eng' = EngAfter(e, r.m)
        /\ last' = Call("get", e, key, <<>>, [r.m EXCEPT !.st = IF @ = "run" THEN "ok" ELSE @],
                        r.items)
        /\ UNCHANGED <<hist, dhist, atFlush, nins, it>>

\* t.flush()
FlushCall(e, f) ==
    LET m  == Flush(MachineOf(e, f, G0))
        ok == ~m.log[1].failed
    IN  /\ eng[e].alive /\ eng[e].pc = None
        /\ durable' = m.durable
        /\ dhist' = IF ok THEN hist ELSE dhist
        /\ atFlush' = IF ok THEN [flushed |-> TRUE, pid |-> eng[e].pid,
                                  view |-> [k \in Keys |-> View(e, k).items]]
                      ELSE atFlush
        /\ last' = Call("flush", e, <<>>, <<>>, [m EXCEPT !.st = "ok"], <<>>)
        /\ UNCHANGED <<db, eng, hist, nins, it>>

\* the machine stops and the store comes back as of the last successful flush
PowerLoss ==
    /\ db # durable
    /\ db' = durable
    /\ eng' = [e \in Engines |-> NoEngine]
    /\ hist' = dhist
    /\ last' = [op |-> "powerloss", e |-> 1, pid |-> 1, key |-> <<>>, value |-> <<>>,
                st |-> "ok", items |-> <<>>, log |-> <<>>]
    /\ UNCHANGED <<durable, dhist, atFlush, nins, it>>

-----------------------------------------------------------------------------
(* One engine on the namespace "t", every call running to its end, no I/O  *)
(* error.  The initial state is the one Trie::new leaves on an empty store.*)

\* the engine part of the initial state
InitEngine ==
    LET m == New([db |-> EmptyStore, durable |-> EmptyStore, pid |-> 1, qty |-> 0,
                  cache |-> EmptyCache, log |-> <<>>, failAt |-> 0, g |-> G0, st |-> "run"])
    IN  /\ db = m.db
        /\ durable = EmptyStore
        /\ eng = [e \in Engines |-> IF e = 1 THEN [alive |-> TRUE, pid |-> 1, qty |-> m.qty,
                                                   cache |-> m.cache, pc |-> None]
                                    ELSE NoEngine]
        /\ last = Call("new", 1, <<>>, <<>>, [m EXCEPT !.st = "ok"], <<>>)
        /\ hist = NoHist
        /\ dhist = NoHist
        /\ atFlush = NoView
        /\ nins = 0

InitNew == InitEngine /\ it = IterOn(<<>>)

Init == InitNew

DoInsert == \E k \in Keys, v \in Values : InsertCall(1, k, v, 0, G0)
DoGet == \E k \in Keys : GetCall(1, k, 0, G0)
DoFlush == FlushCall(1, 0)
Reopen == Construct(1, 1, 0, G0)

Next ==
    \/ DoInsert
    \/ DoGet
    \/ Reopen

Spec == Init /\ [][Next]_vars

-----------------------------------------------------------------------------
(* The same engine with flush, and with the loss of what was not flushed.  *)

NextDurable ==
    \/ DoInsert
    \/ DoFlush
    \/ Reopen
    \/ PowerLoss

SpecDurable == Init /\ [][NextDurable]_vars

-----------------------------------------------------------------------------
(* One engine whose inserts run one store write at a time and may be cut   *)
(* short: the process dies between two writes (the store keeps the writes  *)
(* made), or the put of set_trie_data fails and its error is dropped.      *)

\* the machine of the insert in progress on e; its f-th next store operation fails
MachineAt(e, f, g) ==
    [MachineOf(e, IF f = 0 THEN 0 ELSE Len(eng[e].pc[1].log) + f, g)
        EXCEPT !.log = eng[e].pc[1].log]

\* t.insert(key, value) is entered: the locals are set, nothing is written yet
InsertEnter(e, key, value) ==
    LET b == InsertBegin(MachineOf(e, 0, G0), key, value)
    IN  /\ eng[e].alive /\ eng[e].pc = None
        /\ nins < MaxInserts
        /\ b.m.st # "panic"
        /\ eng' = [EngAfter(e, b.m) EXCEPT ![e].pc = Some([fr |-> b.fr[1], log |-> b.m.log])]
        /\ nins' = nins + 1
        /\ last' = Call("enter", e, key, value, b.m, <<>>)
        /\ UNCHANGED <<db, durable, hist, dhist, atFlush, it>>

\* the insert in progress on e takes its next step
InsertAdvance(e, f, g) ==
    /\ eng[e].pc # None
    /\ LET fr    == eng[e].pc[1].fr
           s     == InsertStep(MachineAt(e, f, g), fr)
           ok    == s.m.st # "panic" /\ s.fr.at = "done"
           ended == s.m.st = "panic" \/ s.fr.at = "done"
       IN  /\ db' = s.m.db
           /\ eng' = [EngAfter(e, s.m) EXCEPT
                         ![e].pc = IF ended THEN None
                                   ELSE Some([fr |-> s.fr, log |-> s.m.log])]
           /\ hist' = IF ok THEN [hist EXCEPT ![eng[e].pid][fr.key] = Append(@, fr.value)]
                      ELSE hist
           /\ last' = Call(IF ended THEN "insert" ELSE "step", e, fr.key, fr.value,
                           [s.m EXCEPT !.st = IF ok THEN "ok" ELSE @], <<>>)
           /\ UNCHANGED <<durable, dhist, atFlush, nins, it>>

\* the process dies in the middle of an insert; the store keeps what was put
Crash(e) ==
    /\ eng[e].pc # None
    /\ eng' = [eng EXCEPT ![e] = NoEngine]
    /\ last' = [op |-> "crash", e |-> e, pid |-> eng[e].pid, key |-> eng[e].pc[1].fr.key,
                value |-> eng[e].pc[1].fr.value, st |-> "crash", items |-> <<>>,
                log |-> eng[e].pc[1].log]
    /\ UNCHANGED <<db, durable, hist, dhist, atFlush, nins, it>>

EnterInsert == \E k \in Keys, v \in Values : InsertEnter(1, k, v)
StepInsert == InsertAdvance(1, 0, G0)
MetaPutFails == eng[1].pc # None /\ eng[1].pc[1].fr.at = "meta" /\ InsertAdvance(1, 1, G0)
CrashInsert == Crash(1)

NextCrash ==
    \/ EnterInsert
    \/ StepInsert
    \/ MetaPutFails
    \/ CrashInsert
    \/ DoGet
    \/ Reopen

SpecCrash == Init /\ [][NextCrash]_vars

-----------------------------------------------------------------------------
(* One engine whose inserts run one store write at a time, every insert    *)
(* running to its end: no crash, no I/O error.                             *)

NextSteps ==
    \/ EnterInsert
    \/ StepInsert
    \/ DoGet
    \/ Reopen

SpecSteps == Init /\ [][NextSteps]_vars

-----------------------------------------------------------------------------
(* Two engines on one store and one namespace, every call running to its   *)
(* end: engine 1 reads, engine 2 writes, and either may be opened anew.    *)

WriterOpen == Construct(2, 1, 0, G0)
WriterValue == <<121>>
WriterInsert == \E k \in Keys : InsertCall(2, k, WriterValue, 0, G0)

NextReader ==
    \/ WriterOpen
    \/ WriterInsert
    \/ DoGet
    \/ Reopen

SpecReader == Init /\ [][NextReader]_vars

-----------------------------------------------------------------------------
(* Two engines on one store and one namespace, both inserting, one store   *)
(* write at a time and in any interleaving; engine 1 inserts "x", engine 2 *)
(* inserts "y".                                                            *)

RaceKeys == Keys \ {<<>>}
RaceValue(e) == <<119 + e>>

RaceOpen == Construct(2, 1, 0, G0)
RaceEnter == \E e \in Engines, k \in RaceKeys : InsertEnter(e, k, RaceValue(e))
RaceStep == \E e \in Engines : InsertAdvance(e, 0, G0)

NextRace ==
    \/ RaceOpen
    \/ RaceEnter
    \/ RaceStep

SpecRace == Init /\ [][NextRace]_vars

-----------------------------------------------------------------------------
(* Two engines on one store under different prefixes: engine 1 on "t",     *)
(* engine 2 on "t\0\0\0\0\0\0\0\0" or on the prefix that does not fit.     *)

\* what a read of a record through the wrong type may yield
GarbageNodes == {DefaultNode, [DefaultNode EXCEPT !.next[97] = Some(1)]}
Garbage == [node : GarbageNodes, qty : {0, 1}, bytes : {<<>>}]

NsConstruct == \E g \in Garbage : Construct(1, 1, 0, g) \/ \E p \in {2, 3} : Construct(2, p, 0, g)
NsKeys == {<<>>, <<97>>}
NsInsert == \E e \in Engines, k \in NsKeys, g \in Garbage : InsertCall(e, k, <<120>>, 0, g)
NsGet == \E e \in Engines, k \in NsKeys, g \in Garbage : GetCall(e, k, 0, g)

NextNs ==
    \/ NsConstruct
    \/ NsInsert
    \/ NsGet

SpecNs == Init /\ [][NextNs]_vars

-----------------------------------------------------------------------------
(* One engine on a store whose operations may fail: in each call at most   *)
(* one store operation, the f-th the call issues, returns an I/O error.    *)

\* the store operations of one call that may be the failing one
MaxFaultAt == 7
\* the value inserted in the runs with I/O errors
FaultValue == <<120>>

FaultKeys == {<<97>>, <<97, 98>>}
FaultInsert == \E k \in FaultKeys, f \in 0..MaxFaultAt : InsertCall(1, k, FaultValue, f, G0)
FaultGet == \E k \in FaultKeys, f \in 0..3 : GetCall(1, k, f, G0)
FaultFlush == \E f \in 0..1 : FlushCall(1, f)
FaultNew == \E f \in 0..3 : Construct(1, 1, f, G0)

NextFault ==
    \/ FaultInsert
    \/ FaultGet
    \/ FaultFlush
    \/ FaultNew

SpecFault == Init /\ [][NextFault]_vars

-----------------------------------------------------------------------------
(* Claims on one engine (Spec).                                            *)

\* what t.get(k).as_str() yields on the engine e now
Strs(e, k) == AsStr(View(e, k).items)

\* every value inserted so far under the prefix p is a non-empty text
AllText(p) ==
    \A k \in Keys : \A i \in 1..Len(hist[p][k]) :
        hist[p][k][i] # <<>> /\ IsUtf8(hist[p][k][i])

\* C1: after insert(K, V) has returned, get(K) yields the values inserted
\* under K so far in insertion order, V being the last of them; for every
\* key and every value, the empty ones included.
C1_InsertThenGetEndsWithValue ==
    (last.op = "insert" /\ last.st = "ok") =>
        /\ View(last.e, last.key).m.st # "panic"
        /\ Strs(last.e, last.key).ok
        /\ Strs(last.e, last.key).strs = hist[last.pid][last.key]
        /\ Strs(last.e, last.key).strs # <<>>
        /\ Strs(last.e, last.key).strs[Len(hist[last.pid][last.key])] = last.value

\* C2: when only non-empty texts were inserted, a get(K) returns exactly the
\* values inserted under K, each once and in insertion order, whatever
\* prefixes K shares with other keys.
C2_GetReturnsExactlyInserted ==
    (last.op = "get" /\ AllText(last.pid)) =>
        /\ last.st = "ok"
        /\ AsStr(last.items) = [ok |-> TRUE, strs |-> hist[last.pid][last.key]]

\* "a" and "ab" both hold a text and get("a") has just answered
C2_Witness ==
    /\ last.op = "get" /\ last.key = <<97>>
    /\ AllText(1)
    /\ hist[1][<<97>>] # <<>>
    /\ hist[1][<<97, 98>>] # <<>>
    /\ hist[1][<<97>>] # hist[1][<<97, 98>>]

\* C3: get(K) of a key never inserted returns the empty sequence and does
\* not fail: K a proper prefix of an inserted key, K past an inserted key,
\* or K leaving the trie at a byte with no edge.
C3_GetUnknownKeyEmpty ==
    (last.op = "get" /\ hist[last.pid][last.key] = <<>>) =>
        last.st = "ok" /\ last.items = <<>>

\* "aa" and "ab" are inserted, "a" is not, and get("a") has just answered
C3_Witness ==
    /\ last.op = "get" /\ last.key = <<97>>
    /\ hist[1][<<97>>] = <<>>
    /\ hist[1][<<97, 97>>] # <<>>
    /\ hist[1][<<97, 98>>] # <<>>

-----------------------------------------------------------------------------
(* Claims on flush and reopening (SpecDurable).                            *)

\* C4: an engine constructed after a flush, no insert having returned since
\* that flush, answers every get as the engine that flushed did: the same
\* values in the same order, and nothing for a key never inserted.
C4_ReopenReproducesGets ==
    (last.op = "new" /\ atFlush.flushed /\ hist = dhist) =>
        \A k \in Keys :
            /\ last.st = "ok"
            /\ View(last.e, k).m.st # "panic"
            /\ View(last.e, k).items = atFlush.view[k]
            /\ Strs(last.e, k) = AsStr(atFlush.view[k])
            /\ hist[last.pid][k] = <<>> => View(last.e, k).items = <<>>

\* a new engine on a flushed store in which "a" and "ab" hold values
C4_Witness ==
    /\ last.op = "new" /\ last.st = "ok" /\ atFlush.flushed /\ hist = dhist
    /\ atFlush.view[<<97>>] # <<>>
    /\ atFlush.view[<<97, 98>>] # <<>>

-----------------------------------------------------------------------------
(* Claims on inserts cut short (SpecCrash).                                *)

\* the node indices the bounded runs can assign
Indices == 0..(2 * MaxInserts)

\* the edges of the stored record of node n of the namespace p
StoredNext(store, p, n) == store[NodeKey(p, n)].node.next

\* the bytes of a value cell holding the values vals
RECURSIVE EncodeCell(_)
EncodeCell(vals) ==
    IF vals = <<>> THEN <<>>
    ELSE ToLe(Len(vals[1]), LenBytes) \o vals[1] \o EncodeCell(Tail(vals))

\* C5: the child is put before the parent edge that names it, so at every
\* point of every insert, a crash between two puts included, every edge of
\* a stored node names an index whose node record is stored.
C5_EdgeTargetsStored ==
    \A n \in Indices : \A b \in KeyBytes :
        (NodeKey(1, n) \in DOMAIN db /\ StoredNext(db, 1, n)[b] # None) =>
            NodeKey(1, StoredNext(db, 1, n)[b][1]) \in DOMAIN db

\* the step allocates no index that has a stored node record
AllocatesUnusedIndex ==
    \A e \in Engines :
        (eng[e].alive /\ eng'[e].alive /\ last'.op \in {"step", "insert"}
         /\ eng'[e].qty = eng[e].qty + 1) =>
            NodeKey(eng[e].pid, eng'[e].qty) \notin DOMAIN db

\* the step leaves every edge of every stored node as it was
KeepsStoredEdges ==
    \A n \in Indices : \A b \in KeyBytes :
        (NodeKey(1, n) \in DOMAIN db /\ StoredNext(db, 1, n)[b] # None) =>
            /\ NodeKey(1, n) \in DOMAIN db'
            /\ StoredNext(db', 1, n)[b] = StoredNext(db, 1, n)[b]

\* an engine at rest returns, for every key, the values of its completed inserts
CommittedReadable ==
    \A e \in Engines :
        (eng[e].alive /\ eng[e].pc = None) =>
            \A k \in Keys :
                hist[eng[e].pid][k] # <<>> =>
                    /\ View(e, k).m.st # "panic"
                    /\ View(e, k).items = EncodeCell(hist[eng[e].pid][k])

\* C6: a partial write never corrupts committed nodes: with inserts cut
\* short between two writes (or the metadata put not taking effect) and the
\* engine reopened, no insert assigns an index that has a stored record, no
\* stored node loses or changes an edge, and every key whose insert
\* completed still returns its values.
C6_PartialWriteKeepsCommitted ==
    [][AllocatesUnusedIndex /\ KeepsStoredEdges /\ CommittedReadable']_vars

-----------------------------------------------------------------------------
(* Claims on namespaces (SpecNs).                                          *)

\* the store keys of the namespace p
KeysOf(p) ==
    {MetaKey(p)} \cup {NodeKey(p, n) : n \in Indices} \cup {ValuesKey(p, n) : n \in Indices}

\* the longest prefix with which every key fits the key buffer
MaxPrefixLen == BufLen - UsizeBytes - Len(ValuesSuffix)

\* an insert on an engine of another prefix leaves the records and the get
\* results of the engine e as they were
UntouchedByOthers(e) ==
    (eng[e].alive /\ last'.op = "insert" /\ last'.e # e /\ last'.pid # eng[e].pid) =>
        /\ \A k \in KeysOf(eng[e].pid) :
               k \in DOMAIN db => (k \in DOMAIN db' /\ db'[k] = db[k])
        /\ \A k \in Keys : View(e, k)'.items = View(e, k).items

\* C7: engines with different prefixes over one store never collide: no
\* key derived for one prefix is a key derived for the other, so no insert
\* on one engine changes a stored record or a get result of the other.
C7_NamespacesIsolated == [][\A e \in Engines : UntouchedByOthers(e)]_vars

\* C10: Trie::new with a prefix longer than the supported maximum fails
\* before it issues any store get or put.
C10_TooLongPrefixFailsBeforeIo ==
    (last.op = "new" /\ Len(PrefixBytes(last.pid)) > MaxPrefixLen) =>
        last.st = "panic" /\ last.log = <<>>

-----------------------------------------------------------------------------
(* Claims on I/O errors (SpecFault).                                       *)

\* the last call issued a store operation of one of the kinds that failed
Failed(kinds) == \E i \in 1..Len(last.log) : last.log[i].failed /\ last.log[i].kind \in kinds

\* C8: an I/O error of a put of a node or of the node counter during
\* insert, or of the store's flush during flush, is propagated: the call
\* does not return normally.
C8_WriteErrorsPropagate ==
    (last.op \in {"insert", "flush"} /\ Failed({"put", "flush"})) => last.st = "panic"

\* C9: when a store get fails with an I/O error, new, insert and get fail
\* instead of completing as if the key were absent.
C9_ReadErrorsPropagate ==
    (last.op \in {"new", "insert", "get"} /\ Failed({"get"})) => last.st = "panic"

-----------------------------------------------------------------------------
(* The value log codec alone: an ItemsStrIter over a captured buffer.  The *)
(* buffers are cells as append_value writes them, followed by arbitrary    *)
(* bytes (a record cut short, a stray tail).                               *)

\* number of whole records in a buffer
MaxCellVals == 2
\* number of bytes that follow the whole records
MaxTailLen == 5
\* the payloads of the whole records: empty, the text "x", a byte that is no UTF-8
CodecValues == {<<>>, <<120>>, <<255>>}
\* the bytes of the tail
TailBytes == {0, 1, 120}

RECURSIVE SeqsUpTo(_, _)
SeqsUpTo(S, n) ==
    IF n = 0 THEN {<<>>}
    ELSE LET shorter == SeqsUpTo(S, n - 1)
         IN  shorter \cup {Append(q, x) : q \in {t \in shorter : Len(t) = n - 1}, x \in S}

CodecBuffers ==
    {EncodeCell(vals) \o tail : vals \in SeqsUpTo(CodecValues, MaxCellVals),
                            tail \in SeqsUpTo(TailBytes, MaxTailLen)}

InitCodec == InitEngine /\ it \in {IterOn(b) : b \in CodecBuffers}

\* one call of it.next()
IterNext ==
    /\ it.r # "panic"
    /\ LET x == ItemsStrIterNext(it.buf, it.pos)
       IN  it' = [buf |-> it.buf, pos |-> x.pos, r |-> x.r, str |-> x.str,
                  out |-> IF x.r = "some" /\ ~it.ended THEN Append(it.out, x.str)
                          ELSE it.out,
                  ended |-> it.ended \/ x.r = "none"]
    /\ UNCHANGED <<db, durable, eng, last, hist, dhist, atFlush, nins>>

\* items.as_str() once more on the same Items
IterRestart ==
    /\ it.r # "start"
    /\ it' = IterOn(it.buf)
    /\ UNCHANGED <<db, durable, eng, last, hist, dhist, atFlush, nins>>

NextCodec ==
    \/ IterNext
    \/ IterRestart

SpecCodec == InitCodec /\ [][NextCodec]_vars

-----------------------------------------------------------------------------
(* Claims on the codec (SpecCodec).                                        *)

\* the whole records of buf from the 0-based offset pos on: a length of
\* four bytes and that many payload bytes, up to the first record cut short
RECURSIVE CompleteRecords(_, _)
CompleteRecords(buf, pos) ==
    IF pos + LenBytes > Len(buf) THEN <<>>
    ELSE LET len == FromLe(SubSeq(buf, pos + 1, pos + LenBytes))
         IN  IF pos + LenBytes + len > Len(buf) THEN <<>>
             ELSE <<SubSeq(buf, pos + LenBytes + 1, pos + LenBytes + len)>>
                  \o CompleteRecords(buf, pos + LenBytes + len)

\* every whole record of buf is a non-empty text
TextCell(buf) ==
    \A i \in 1..Len(CompleteRecords(buf, 0)) :
        CompleteRecords(buf, 0)[i] # <<>> /\ IsUtf8(CompleteRecords(buf, 0)[i])

\* C11: decoding a cell whose trailing record is cut short (fewer than four
\* length bytes, or fewer payload bytes than declared) ends the sequence
\* there without an error and yields exactly the whole records before it;
\* an empty cell decodes to the empty sequence.  Stated for the cells whose
\* whole records are non-empty texts.
C11_TruncatedTailEndsSequence ==
    TextCell(it.buf) =>
        /\ it.r # "panic"
        /\ it.ended => it.out = CompleteRecords(it.buf, 0)

\* C18: iteration is fused and advances record by record, for payloads
\* that are no UTF-8 too: a call of next that yields a record moves the
\* cursor past that whole record, and after next has reported the end
\* every later call reports the end.  Stated for the calls that return.
C18_IterationFused ==
    [][/\ (it.r = "none" /\ it'.r \notin {"start", "panic"}) => it'.r = "none"
       /\ it'.r = "some" => it'.pos = it.pos + LenBytes + Len(it'.str)]_vars

-----------------------------------------------------------------------------
(* Claims on the shape of the trie (Spec).                                 *)

\* the non-empty prefixes of the keys inserted so far under the namespace p
SeenPrefixes(p) ==
    {SubSeq(k, 1, j) : <<k, j>> \in {x \in Keys \X (1..2) :
                                        hist[p][x[1]] # <<>> /\ x[2] <= Len(x[1])}}

\* the index the stored edges lead to from node n along the bytes of path
\* (-1 where a node record or an edge is missing)
RECURSIVE Walk(_, _, _, _)
Walk(store, p, n, path) ==
    IF NodeKey(p, n) \notin DOMAIN store THEN -1
    ELSE IF path = <<>> THEN n
    ELSE IF StoredNext(store, p, n)[path[1]] = None THEN -1
    ELSE Walk(store, p, StoredNext(store, p, n)[path[1]][1], Tail(path))

\* the indices that have a stored node record
StoredIndices(store, p) == {n \in Indices \cup {2 * MaxInserts + 1} : NodeKey(p, n) \in DOMAIN store}

\* C12: on one engine that started on an empty namespace, after any inserts
\* the counter is the number of distinct non-empty prefixes of the inserted
\* keys; every such prefix has one node of its own, the nodes are 1, 2, ...
\* up to the counter with the root at 0, and a node allocated later (a longer
\* prefix) has the larger index.
C12_OneNodePerPrefix ==
    /\ eng[1].qty = Cardinality(SeenPrefixes(1))
    /\ StoredIndices(db, 1) = 0..eng[1].qty
    /\ {Walk(db, 1, 0, s) : s \in SeenPrefixes(1)} = 1..eng[1].qty
    /\ \A s \in SeenPrefixes(1) :
           Len(s) > 1 => Walk(db, 1, 0, SubSeq(s, 1, Len(s) - 1)) < Walk(db, 1, 0, s)

\* "aa" then "ab": the second insert met the prefix "a" again and got one node
C12_Witness ==
    /\ last.op = "insert" /\ last.key = <<97, 98>>
    /\ hist[1][<<97, 97>>] # <<>>
    /\ eng[1].qty = 3
    /\ Walk(db, 1, 0, <<97, 98>>) = 3

\* the edge slots set in the stored nodes of the namespace p: <<node, byte, index>>
StoredEdges(store, p) ==
    {<<n, b, StoredNext(store, p, n)[b][1]>> :
        <<n, b>> \in {x \in StoredIndices(store, p) \X KeyBytes :
                         StoredNext(store, p, x[1])[x[2]] # None}}

\* the edge slots set in the nodes the engine e holds in its cache
CachedEdges(e) ==
    {<<n, b, eng[e].cache[n].next[b][1]>> :
        <<n, b>> \in {x \in (DOMAIN eng[e].cache) \X KeyBytes :
                         eng[e].cache[x[1]].next[x[2]] # None}}

\* every index in the edges is positive and stands in one slot only
PositiveAndUnique(edges) ==
    /\ \A x \in edges : x[3] > 0
    /\ \A x, y \in edges : x[3] = y[3] => x = y

\* the step leaves every edge of every node that stays in the cache as it was
KeepsCachedEdges ==
    \A n \in (DOMAIN eng[1].cache) \cap (DOMAIN eng'[1].cache) : \A b \in KeyBytes :
        eng[1].cache[n].next[b] # None => eng'[1].cache[n].next[b] = eng[1].cache[n].next[b]

\* C13: with inserts and gets on one engine (no I/O failure) an edge slot,
\* once set, keeps its index in the stored node and in the cached one, every
\* index in an edge is strictly positive, and no index stands in two slots.
C13_EdgesSetOnce ==
    /\ [][KeepsStoredEdges /\ KeepsCachedEdges]_vars
    /\ [](PositiveAndUnique(StoredEdges(db, 1)) /\ PositiveAndUnique(CachedEdges(1)))

\* the root got its edge for "b" after it had the one for "a"
C13_Witness ==
    /\ last.op = "insert" /\ last.key = <<98>>
    /\ StoredEdges(db, 1) = {<<0, 97, 1>>, <<0, 98, 2>>}
    /\ CachedEdges(1) = StoredEdges(db, 1)

\* C14: the node cache is write-through: after every construct, insert and
\* get on one engine (no I/O failure, no other writer) every node in the
\* cache has a stored record under its node key and equals the node that
\* record decodes to.
C14_CacheWriteThrough ==
    \A n \in DOMAIN eng[1].cache :
        /\ NodeKey(1, n) \in DOMAIN db
        /\ DecodeNode(db[NodeKey(1, n)], G0) = eng[1].cache[n]
        /\ db[NodeKey(1, n)].kind = "node"

\* a get on a reopened engine has loaded the nodes of "a" and "ab" from the
\* store into the cache, after inserts that put them through the cache
C14_Witness ==
    /\ last.op = "get" /\ last.key = <<97, 98>>
    /\ \E i \in DOMAIN last.log : last.log[i] = [kind |-> "get", key |-> NodeKey(1, 2), failed |-> FALSE]
    /\ DOMAIN eng[1].cache = {0, 1, 2}
    /\ eng[1].cache[1].next[98] = Some(2)

-----------------------------------------------------------------------------
(* Claims on what a call leaves alone.                                     *)

\* the puts a call has issued
PutsOf(log) == {i \in DOMAIN log : log[i].kind = "put"}

\* C17: Trie::new makes the root exist and changes nothing else: with no
\* stored root it puts one record, node 0 without edges; with a stored root
\* it issues no put, so every node, value cell and the counter record stay
\* as they were however often an engine is constructed.
C17_ConstructOnlyCreatesRoot ==
    [][last'.op = "new" =>
          /\ last'.st = "ok"
          /\ eng'[last'.e].alive /\ 0 \in DOMAIN eng'[last'.e].cache
          /\ IF NodeKey(1, 0) \in DOMAIN db
             THEN db' = db /\ PutsOf(last'.log) = {}
             ELSE /\ db' = Upd(db, NodeKey(1, 0), NodeRec(DefaultNode))
                  /\ \E i \in DOMAIN last'.log :
                        /\ PutsOf(last'.log) = {i}
                        /\ last'.log[i].key = NodeKey(1, 0)]_vars

\* an engine was constructed on a namespace that holds "a" and "ab"
C17_Witness ==
    /\ last.op = "new" /\ last.st = "ok"
    /\ PutsOf(last.log) = {}
    /\ hist[1][<<97>>] # <<>> /\ hist[1][<<97, 98>>] # <<>>
    /\ StoredIndices(db, 1) = {0, 1, 2}
    /\ MetaKey(1) \in DOMAIN db /\ ValuesKey(1, 2) \in DOMAIN db

\* C19: get reads only: for every key, found or not, the call issues no put,
\* the store (nodes, value cells, counter record) and the counter of the
\* engine are after the call what they were before, and the cache keeps
\* every entry as it was and may only gain entries.
C19_GetReadOnly ==
    [][last'.op = "get" =>
          /\ PutsOf(last'.log) = {}
          /\ db' = db /\ durable' = durable
          /\ eng'[last'.e].qty = eng[last'.e].qty
          /\ \A n \in DOMAIN eng[last'.e].cache :
                /\ n \in DOMAIN eng'[last'.e].cache
                /\ eng'[last'.e].cache[n] = eng[last'.e].cache[n]]_vars

\* a get of "ab" on a reopened engine: the cache has gained the nodes 1 and 2
C19_Witness ==
    /\ last.op = "get" /\ last.key = <<97, 98>> /\ last.items # <<>>
    /\ Len(last.log) = 3
    /\ DOMAIN eng[1].cache = {0, 1, 2}
    /\ StoredIndices(db, 1) = {0, 1, 2, 3}

-----------------------------------------------------------------------------
(* Claims on the persisted counter (SpecSteps).                            *)

\* the counter a Trie::new would read from the store now
PersistedQty(store, p) ==
    IF MetaKey(p) \in DOMAIN store THEN DecodeTrieData(store[MetaKey(p)], G0) ELSE 0

\* with no insert in progress the persisted counter is the one in memory and
\* bounds every stored node index and every index in a stored edge
CounterCoversStore ==
    eng[1].pc = None =>
        /\ PersistedQty(db, 1) = eng[1].qty
        /\ \A n \in StoredIndices(db, 1) : n <= PersistedQty(db, 1)
        /\ \A x \in StoredEdges(db, 1) : x[3] <= PersistedQty(db, 1)

\* C20: whenever no insert is in progress on the one engine (no I/O failure,
\* no other writer) the persisted counter equals the counter in memory and
\* is at least every stored node index and every index in a stored edge; so
\* inserts, also those of an engine opened at such a point, allocate only
\* indices without a stored record, and the keys inserted keep their values.
C20_PersistedCounterCoversStore ==
    [](CounterCoversStore /\ CommittedReadable) /\ [][AllocatesUnusedIndex]_vars

\* "b" was inserted, the engine was reopened, and an insert of "aa" has ended:
\* the new engine never loaded node 1 and allocated 2 and 3
C20_Witness ==
    /\ last.op = "insert" /\ last.st = "ok" /\ last.key = <<97, 97>>
    /\ eng[1].pc = None
    /\ hist[1][<<98>>] # <<>>
    /\ DOMAIN eng[1].cache = {0, 2, 3}
    /\ PersistedQty(db, 1) = 3

-----------------------------------------------------------------------------
(* Claims on two engines over one namespace.                               *)

\* the engine e holds in its cache a node on the stored path of k that has
\* no edge for the next byte of k
StaleMiss(e, k) ==
    \E j \in 0..(Len(k) - 1) :
        LET n == Walk(db, eng[e].pid, 0, SubSeq(k, 1, j))
        IN  /\ n \in DOMAIN eng[e].cache
            /\ eng[e].cache[n].next[k[j + 1]] = None

\* C15 as stated: an insert of the writing engine leaves every get of the
\* reading engine as it was.
C15_NeverObservesOtherWrites ==
    [][(last'.op = "insert" /\ last'.e = 2 /\ eng[1].alive) =>
          \A k \in Keys : View(1, k)'.items = View(1, k).items]_vars

\* C15, amended: an engine does not see a key of the other engine whose path
\* leaves a node it holds in its cache at an edge set later: its get answers
\* empty.  Every other get reads the store: it returns all values inserted
\* under the key so far, those the other engine appended after this engine
\* was constructed included, and an engine constructed afterwards sees all.
C15_ObservesUnlessCachedNodeStale ==
    \A e \in Engines : eng[e].alive =>
        \A k \in Keys :
            /\ View(e, k).m.st # "panic"
            /\ View(e, k).items = IF StaleMiss(e, k) THEN <<>>
                                  ELSE EncodeCell(hist[eng[e].pid][k])

\* the writer has inserted "" and "a" since the reader was constructed; the
\* reader's get("a") has just answered empty, and its get("") returns the value
C15_Witness ==
    /\ last.op = "get" /\ last.e = 1 /\ last.key = <<97>> /\ last.items = <<>>
    /\ eng[2].alive
    /\ hist[1][<<97>>] # <<>> /\ hist[1][<<>>] # <<>>
    /\ StaleMiss(1, <<97>>)
    /\ View(1, <<>>).items = EncodeCell(hist[1][<<>>])

\* the index the cache of the engine e leads to from node n along path
\* (-1 where the cache lacks a node or an edge)
RECURSIVE CacheWalk(_, _, _)
CacheWalk(e, n, path) ==
    IF n \notin DOMAIN eng[e].cache THEN -1
    ELSE IF path = <<>> THEN n
    ELSE IF eng[e].cache[n].next[path[1]] = None THEN -1
    ELSE CacheWalk(e, eng[e].cache[n].next[path[1]][1], Tail(path))

\* the two engines hold the same node index for different path segments
SameIndexTwice ==
    \E s, t \in RaceKeys :
        /\ s # t
        /\ CacheWalk(1, 0, s) >= 1
        /\ CacheWalk(1, 0, s) = CacheWalk(2, 0, t)

\* a stored node no longer carries an edge that an engine has put in it
LostEdge ==
    \E e \in Engines : \E x \in CachedEdges(e) :
        \/ NodeKey(1, x[1]) \notin DOMAIN db
        \/ StoredNext(db, 1, x[1])[x[2]] # Some(x[3])

\* get(k) as an engine constructed now would answer it
FreshView(k) == Get(Machine(1, 0, EmptyCache, 0, G0), k)

\* get(k) does not return the values whose insert under k completed: k is
\* not found, or it returns values inserted under another key
NotItsValues(k) ==
    \/ FreshView(k).m.st = "panic"
    \/ FreshView(k).items # EncodeCell(hist[1][k])

BothAtRest == \A e \in Engines : eng[e].alive /\ eng[e].pc = None

\* the step counts from the counter of the engine that takes it, whatever
\* the store holds by then
CountsFromOwnCounter ==
    \A e \in Engines :
        (last'.op \in {"step", "insert"} /\ last'.e = e /\ eng'[e].qty # eng[e].qty) =>
            /\ eng'[e].qty = eng[e].qty + 1
            /\ \E x \in CachedEdges(e)' : x[3] = eng[e].qty + 1 /\ x \notin CachedEdges(e)

\* C16: allocation is not atomic across writers.  An engine counts from its
\* own counter, read from the store when it was constructed; and once two
\* engines inserting into one namespace hold one index for two path segments,
\* or a stored node has lost an edge an engine put, the trie answers some
\* key with other values than those inserted under it.
C16_RacingWritersCorrupt ==
    /\ []((BothAtRest /\ (SameIndexTwice \/ LostEdge)) => \E k \in RaceKeys : NotItsValues(k))
    /\ [][CountsFromOwnCounter]_vars

\* both engines inserted a new key on the same counter: "a" and "b" both got
\* node 1, the stored root has lost the edge of one of them, so one key is not
\* found and the other returns the values of both
C16_Witness ==
    /\ BothAtRest /\ SameIndexTwice /\ LostEdge
    /\ hist[1][<<97>>] # <<>> /\ hist[1][<<98>>] # <<>>
    /\ \E k \in {<<97>>, <<98>>} : FreshView(k).items = <<>>
    /\ \E k \in {<<97>>, <<98>>} :
          /\ Len(hist[1][k]) = 1
          /\ FreshView(k).items = EncodeCell(<<RaceValue(1), RaceValue(2)>>)

====
